---- MODULE Spec2Model ----
(***************************************************************************)
(* Model of the aggregation pipeline of the airline dashboard:             *)
(*   pages/volume/visuals.py        Flow (Sankey) builder and its layout   *)
(*   pages/best_airline/visuals.py  route recommendation engine            *)
(* The flight-records table is loaded once and then only read; every page  *)
(* render recomputes its aggregates from the table.                        *)
(*                                                                         *)
(* Encoding of pandas values:                                              *)
(*   - a table is a sequence of rows; no builder depends on the order of   *)
(*     the rows, so the tables of Init list their rows in one canonical    *)
(*     order;                                                              *)
(*   - a numeric cell is a set: {} is a missing value (NaN), {v} is v;     *)
(*   - a missing Airline_Name is the marker NaNName;                       *)
(*   - a mean or a rate is the exact fraction [num, den] (den = 0: NaN);   *)
(*   - a value rounded to one decimal is kept as an integer in tenths;     *)
(*   - the label f"2018: {name}" is the record [period, name].             *)
(* Airline names of the data never contain the text "Others".              *)
(***************************************************************************)
EXTENDS Integers, Sequences, FiniteSets, TLC

(* ------------------------------ bounds -------------------------------- *)
(* rows of a table of the volume family, beside its background rows *)
MaxVolumeRows == 3
(* rows of a table of the ranking family *)
MaxRankingRows == 5
(* rows of a table of the mixed-route family *)
MaxMixedRows == 3
(* rows of a table of the waterfall family *)
MaxWaterfallRows == 3
(* rows of a table of the airport family, beside its background rows *)
MaxAirportRows == 3
(* rows of a table of the delay family *)
MaxDelayRows == 3

(* ------------------------- program constants -------------------------- *)
TopN == 10
TopRanked == 3
marker_multiplier == 450

AirlineNames == <<"A", "B", "C", "D", "E", "F", "G", "H", "I", "J", "K">>
NaNName == "NaN"
OthersName == "Others"

(* the rank of a name in sorted order; a missing name sorts last *)
NameRank ==
  [name \in {AirlineNames[i] : i \in DOMAIN AirlineNames} \cup {NaNName} |->
     IF name = NaNName THEN Len(AirlineNames) + 1
     ELSE CHOOSE i \in DOMAIN AirlineNames : AirlineNames[i] = name]

NameIndex(name) == NameRank[name]

Airports == {"JFK", "LAX"}

(* the airport codes and the states of the data, each in sorted order;    *)
(* "XXX" is in no reference table                                         *)
AirportCodes ==
  <<"A01", "A02", "A03", "A04", "A05", "A06", "A07", "A08", "A09", "A10",
    "JFK", "LAX", "XXX">>

StateNames ==
  <<"CA", "NJ", "NY", "S01", "S02", "S03", "S04", "S05", "S06", "S07", "S08",
    "S09">>

(* the position of a value in a sorted list of the values *)
RankIn(sorted, x) == CHOOSE i \in DOMAIN sorted : sorted[i] = x

(* ------------------------------ helpers ------------------------------- *)
RECURSIVE SumSeq(_)
SumSeq(s) == IF s = <<>> THEN 0 ELSE Head(s) + SumSeq(Tail(s))

RECURSIVE SumSet(_, _)
SumSet(S, f) ==
  IF S = {} THEN 0
  ELSE LET x == CHOOSE y \in S : TRUE IN f[x] + SumSet(S \ {x}, f)

Range(s) == {s[i] : i \in DOMAIN s}

Max2(a, b) == IF a >= b THEN a ELSE b

(* a sequence given as a function, evaluated once into a tuple *)
Tuple(f) == SubSeq(f, 1, Len(f))

(* pandas Series.dt.year / dt.month on FL_DATE *)
InPeriod(row, year, month) ==
  row.FL_DATE.year = year /\ row.FL_DATE.month = month

(* days since 1970-01-01 of a civil date *)
DaysFromCivil(date) ==
  LET y == IF date.month <= 2 THEN date.year - 1 ELSE date.year
      era == y \div 400
      yoe == y - era * 400
      mp == IF date.month > 2 THEN date.month - 3 ELSE date.month + 9
      doy == (153 * mp + 2) \div 5 + date.day - 1
      doe == yoe * 365 + yoe \div 4 - yoe \div 100 + doy
  IN era * 146097 + doe - 719468

(* dt.to_period("W"): the Monday-to-Sunday week the date falls in *)
YearWeek(date) == (DaysFromCivil(date) + 3) \div 7

(* the rows of S as a sequence, x before y when Before(x, y) *)
SortSet(S, Before(_, _)) ==
  LET ranked == {<<x, Cardinality({y \in S : y # x /\ Before(y, x)})>> : x \in S}
  IN Tuple([k \in 1..Cardinality(S) |->
              (CHOOSE p \in ranked : p[2] = k - 1)[1]])

(* list.sort / sort_values on a sequence: position breaks ties (stable) *)
StableSort(s, Less(_, _)) ==
  LET Before(i, j) == Less(s[i], s[j]) \/ (~Less(s[j], s[i]) /\ i < j)
      idx == SortSet(DOMAIN s, Before)
  IN Tuple([k \in DOMAIN s |-> s[idx[k]]])

Head10(s) == SubSeq(s, 1, IF Len(s) < TopN THEN Len(s) ELSE TopN)

(* -------------------- the flight-records table ------------------------ *)
Date(y, m, d) == [year |-> y, month |-> m, day |-> d]

(* a flight record; its departure and weather delays are 0 unless set *)
Row(date, origin, dest, id, name, arr) ==
  [FL_DATE |-> date, ORIGIN_AIRPORT |-> origin, DEST_AIRPORT |-> dest,
   AIRLINE_ID |-> id, Airline_Name |-> name, ARR_DELAY |-> arr,
   DEP_DELAY |-> {0}, WEATHER_DELAY |-> {0}]

(* the nondecreasing index sequences of length n over lo..hi *)
RECURSIVE SortedIndexSeqs(_, _, _)
SortedIndexSeqs(n, lo, hi) ==
  IF n = 0 THEN {<<>>}
  ELSE UNION {{<<i>> \o t : t \in SortedIndexSeqs(n - 1, i, hi)} : i \in lo..hi}

(* every table of at most maxRows rows drawn from the row list dom *)
TablesOver(dom, maxRows) ==
  UNION {{Tuple([k \in 1..n |-> dom[s[k]]]) : s \in SortedIndexSeqs(n, 1, Len(dom))}
         : n \in 0..maxRows}

(* ------------------ tables as objects: copies and writes -------------- *)
(* The tables a call works with: the caller's table ("df"), the table a   *)
(* boolean selection creates ("selection") and the copy a call makes      *)
(* ("work"). A local name refers to one of them.                          *)
Frames(table) == [df |-> table, selection |-> <<>>, work |-> <<>>]

(* mutant of copy: the name refers to the table it was to be a copy of *)
copy_SameObject(frames, source) == [frames |-> frames, frame |-> source]

(* DataFrame.copy(): a new table with the rows of the source *)
copy(frames, source) ==
  [frames |-> [frames EXCEPT !.work = frames[source]], frame |-> "work"]

(* frame[column] = ... : the table the name refers to gets the new rows *)
setitem(frames, frame, table) == [frames EXCEPT ![frame] = table]

(* ------------- pages/volume/visuals.py: the Flow builder -------------- *)
PeriodRows(df, year, month) ==
  SelectSeq(df, LAMBDA row : InPeriod(row, year, month))

(* data.groupby("Airline_Name").size().reset_index(name="Flight_Count"):  *)
(* one row per name, names ascending, rows without a name dropped         *)
GroupSizeByName(data) ==
  LET names == {data[i].Airline_Name : i \in DOMAIN data} \ {NaNName}
      keys == SortSet(names, LAMBDA x, y : NameIndex(x) < NameIndex(y))
  IN Tuple([k \in DOMAIN keys |->
        [Airline_Name |-> keys[k],
         Flight_Count |->
           Cardinality({i \in DOMAIN data : data[i].Airline_Name = keys[k]})]])

(* the sort orders an unstable sort may give to rows of equal count *)
TieOrders == {"keep", "swap"}

(* counts.sort_values("Flight_Count", ascending=False) *)
SortValuesDescending(counts, tie) ==
  LET Before(i, j) ==
        \/ counts[i].Flight_Count > counts[j].Flight_Count
        \/ /\ counts[i].Flight_Count = counts[j].Flight_Count
           /\ IF tie = "keep" THEN i < j ELSE i > j
      idx == SortSet(DOMAIN counts, Before)
  IN Tuple([k \in DOMAIN counts |-> counts[idx[k]]])

(* mutant of TailSum: the airlines after the tenth are not counted *)
TailSum_Dropped(counts) == 0

(* counts["Flight_Count"].iloc[10:].sum() *)
TailSum(counts) ==
  SumSeq(Tuple([k \in 1..(Len(counts) - Len(Head10(counts))) |->
                  counts[Len(Head10(counts)) + k].Flight_Count]))

summarize(data, tie) ==
  LET counts == SortValuesDescending(GroupSizeByName(data), tie)
  IN Head10(counts) \o
       <<[Airline_Name |-> OthersName, Flight_Count |-> TailSum(counts)]>>

NodeLabels(prefix, data) ==
  Tuple([i \in DOMAIN data |->
           [period |-> prefix, name |-> data[i].Airline_Name]])

(* {label: idx for idx, label in enumerate(all_labels)}[label] *)
node_to_id(all_labels, label) ==
  LET hits == {i \in DOMAIN all_labels : all_labels[i] = label}
  IN (CHOOSE i \in hits : \A j \in hits : j <= i) - 1

get_count(data, airline) ==
  LET hits == {i \in DOMAIN data : data[i].Airline_Name = airline}
  IN data[CHOOSE i \in hits : \A j \in hits : i <= j].Flight_Count

AirlinesOf(data) ==
  SelectSeq(Tuple([i \in DOMAIN data |-> data[i].Airline_Name]),
            LAMBDA name : name # OthersName)

(* the orders in which a set of str may be iterated (one per hash seed) *)
IterationOrders == {"ascending", "descending"}

IterateSet(S, order) ==
  SortSet(S, LAMBDA x, y : IF order = "ascending"
                           THEN NameIndex(x) < NameIndex(y)
                           ELSE NameIndex(x) > NameIndex(y))

Link(source, target, value) ==
  [source |-> source, target |-> target, value |-> value]

Flatten(ss) ==
  LET flat[k \in 0..Len(ss)] == IF k = 0 THEN <<>> ELSE flat[k - 1] \o ss[k]
  IN flat[Len(ss)]

(* mutant of ContinuityValue: the smaller of the two counts *)
ContinuityValue_Min(count_2018, count_2020) ==
  IF count_2018 < count_2020 THEN count_2018 ELSE count_2020

(* the value of the same-airline link, lines 323-325 *)
ContinuityValue(count_2018, count_2020) == count_2020

(* lines 320-333: airlines in the top of both periods *)
CommonLinks(data_2018, data_2020, all_labels, order) ==
  LET both == IterateSet(Range(AirlinesOf(data_2018))
                           \cap Range(AirlinesOf(data_2020)), order)
      One(airline) ==
        LET source == node_to_id(all_labels, [period |-> "2018", name |-> airline])
            target == node_to_id(all_labels, [period |-> "2020", name |-> airline])
            count_2018 == get_count(data_2018, airline)
            count_2020 == get_count(data_2020, airline)
        IN <<Link(source, target, ContinuityValue(count_2018, count_2020))>> \o
           (IF count_2018 > count_2020
            THEN <<Link(source,
                        node_to_id(all_labels,
                                   [period |-> "2020", name |-> OthersName]),
                        count_2018 - count_2020)>>
            ELSE <<>>)
  IN Flatten(Tuple([k \in DOMAIN both |-> One(both[k])]))

(* lines 335-342: airlines new to the 2020 top *)
NewLinks(data_2018, data_2020, all_labels, order) ==
  LET new == IterateSet(Range(AirlinesOf(data_2020))
                          \ Range(AirlinesOf(data_2018)), order)
  IN Tuple([k \in DOMAIN new |->
        Link(node_to_id(all_labels, [period |-> "2018", name |-> OthersName]),
             node_to_id(all_labels, [period |-> "2020", name |-> new[k]]),
             get_count(data_2020, new[k]))])

(* lines 344-351: airlines that left the 2020 top *)
DroppedLinks(data_2018, data_2020, all_labels, order) ==
  LET gone == IterateSet(Range(AirlinesOf(data_2018))
                           \ Range(AirlinesOf(data_2020)), order)
  IN Tuple([k \in DOMAIN gone |->
        Link(node_to_id(all_labels, [period |-> "2018", name |-> gone[k]]),
             node_to_id(all_labels, [period |-> "2020", name |-> OthersName]),
             get_count(data_2018, gone[k]))])

(* lines 353-355 *)
others_flow(data_2020, all_labels, links) ==
  LET others_2018 ==
        node_to_id(all_labels, [period |-> "2018", name |-> OthersName])
      from_others == SelectSeq(links, LAMBDA l : l.source = others_2018)
  IN get_count(data_2020, OthersName)
       - SumSeq(Tuple([k \in DOMAIN from_others |-> from_others[k].value]))

(* mutant of ClampFlow: the residual is emitted as it is *)
ClampFlow_Unclamped(flow) == flow

(* max(others_flow, 0), line 360 *)
ClampFlow(flow) == Max2(flow, 0)

(* lines 356-362 *)
BalancingLink(data_2020, all_labels, links) ==
  Link(node_to_id(all_labels, [period |-> "2018", name |-> OthersName]),
       node_to_id(all_labels, [period |-> "2020", name |-> OthersName]),
       ClampFlow(others_flow(data_2020, all_labels, links)))

NoSankey ==
  [status |-> "None", data_2018 |-> <<>>, data_2020 |-> <<>>,
   node_labels_2018 |-> <<>>, node_labels_2020 |-> <<>>,
   all_labels |-> <<>>, links |-> <<>>]

(* mutant of SankeyUnavailable: None only when both periods are empty *)
SankeyUnavailable_BothEmpty(aug, jan) == aug = <<>> /\ jan = <<>>

(* the test of line 289 *)
SankeyUnavailable(aug, jan) == aug = <<>> \/ jan = <<>>

(* _build_airline_sankey_data; data_2018 and data_2020 are its locals *)
build_airline_sankey_data(df, tie_2018, tie_2020, order) ==
  LET aug == PeriodRows(df, 2018, 8)
      jan == PeriodRows(df, 2020, 1)
      data_2018 == summarize(aug, tie_2018)
      data_2020 == summarize(jan, tie_2020)
      node_labels_2018 == NodeLabels("2018", data_2018)
      node_labels_2020 == NodeLabels("2020", data_2020)
      all_labels == node_labels_2018 \o node_labels_2020
      links == CommonLinks(data_2018, data_2020, all_labels, order)
                 \o NewLinks(data_2018, data_2020, all_labels, order)
                 \o DroppedLinks(data_2018, data_2020, all_labels, order)
  IN IF SankeyUnavailable(aug, jan) THEN NoSankey
     ELSE [status |-> "ok", data_2018 |-> data_2018, data_2020 |-> data_2020,
           node_labels_2018 |-> node_labels_2018,
           node_labels_2020 |-> node_labels_2020,
           all_labels |-> all_labels,
           links |-> Append(links, BalancingLink(data_2020, all_labels, links))]

(* ------- pages/volume/visuals.py: airports, airlines, states ---------- *)
(* df.groupby("ORIGIN_AIRPORT").size().reset_index(name="Flights") *)
GroupSizeByOrigin(table) ==
  LET codes == {table[i].ORIGIN_AIRPORT : i \in DOMAIN table}
      keys == SortSet(codes, LAMBDA x, y :
                RankIn(AirportCodes, x) < RankIn(AirportCodes, y))
  IN Tuple([k \in DOMAIN keys |->
        [ORIGIN_AIRPORT |-> keys[k],
         Flights |->
           Cardinality({i \in DOMAIN table : table[i].ORIGIN_AIRPORT = keys[k]})]])

(* mutant of BusiestFirst: ascending=False forgotten *)
BusiestFirst_Ascending(flights_a, flights_b) == flights_a < flights_b

(* the order of sort_values("Flights", ascending=False), line 167 *)
BusiestFirst(flights_a, flights_b) == flights_a > flights_b

(* lines 163-169: top_airports of _render_busiest_airports *)
top_airports_of(table, tie) ==
  LET counts == GroupSizeByOrigin(table)
      Before(i, j) ==
        \/ BusiestFirst(counts[i].Flights, counts[j].Flights)
        \/ /\ counts[i].Flights = counts[j].Flights
           /\ IF tie = "keep" THEN i < j ELSE i > j
      idx == SortSet(DOMAIN counts, Before)
  IN Head10(Tuple([k \in DOMAIN counts |-> counts[idx[k]]]))

(* _summarize of _build_airline_comparison, lines 109-113 *)
summarize_airlines(data, label) ==
  LET counts == GroupSizeByName(data)
  IN Tuple([k \in DOMAIN counts |->
        [Airline_Name |-> counts[k].Airline_Name,
         Total_Flights |-> counts[k].Flight_Count,
         Period |-> label]])

(* mutant of nlargest: the first ten keys, whatever their totals *)
nlargest_FirstKeys(sums) ==
  {sums[k].key : k \in 1..(IF Len(sums) < TopN THEN Len(sums) ELSE TopN)}

(* Series.nlargest(10).index: the keys of the ten largest totals, equal   *)
(* totals in the order of the series (keep="first")                       *)
nlargest(sums) ==
  LET Before(i, j) ==
        \/ sums[i].total > sums[j].total
        \/ sums[i].total = sums[j].total /\ i < j
      idx == SortSet(DOMAIN sums, Before)
  IN {sums[idx[k]].key : k \in 1..(IF Len(sums) < TopN THEN Len(sums) ELSE TopN)}

(* combined.groupby("Airline_Name")["Total_Flights"].sum() *)
SumByAirline(combined) ==
  LET names == {combined[i].Airline_Name : i \in DOMAIN combined}
      keys == SortSet(names, LAMBDA x, y : NameIndex(x) < NameIndex(y))
  IN Tuple([k \in DOMAIN keys |->
        [key |-> keys[k],
         total |-> LET mine == SelectSeq(combined,
                                 LAMBDA r : r.Airline_Name = keys[k])
                   IN SumSeq(Tuple([m \in DOMAIN mine |->
                                      mine[m].Total_Flights]))]])

(* _build_airline_comparison; pd.DataFrame() is the empty sequence *)
build_airline_comparison(table) ==
  LET aug_2018 == PeriodRows(table, 2018, 8)
      jan_2020 == PeriodRows(table, 2020, 1)
      frames ==
        (IF aug_2018 # <<>> THEN <<summarize_airlines(aug_2018, "August 2018")>>
         ELSE <<>>)
        \o (IF jan_2020 # <<>>
            THEN <<summarize_airlines(jan_2020, "January 2020")>> ELSE <<>>)
      combined == Flatten(frames)
      top_airlines == nlargest(SumByAirline(combined))
  IN IF table = <<>> THEN <<>>
     ELSE IF aug_2018 = <<>> /\ jan_2020 = <<>> THEN <<>>
     ELSE SelectSeq(combined, LAMBDA r : r.Airline_Name \in top_airlines)

(* a row of the airport-reference table; a missing State is NaNName *)
Airport(iata, state, name, latitude, longitude) ==
  [IATA |-> iata, State |-> state, Airport_Name |-> name,
   Latitude |-> latitude, Longitude |-> longitude]

(* airports_us[["IATA", "State"]].dropna(), line 231 *)
airport_states_of(airports) ==
  SelectSeq(airports, LAMBDA a : a.State # NaNName)

(* mutant of JoinKey: the join made on the destination airport *)
JoinKey_Destination(row) == row.DEST_AIRPORT

(* left_on="ORIGIN_AIRPORT", line 232 *)
JoinKey(row) == row.ORIGIN_AIRPORT

(* df.merge(airport_states, left_on="ORIGIN_AIRPORT", right_on="IATA",    *)
(* how="left"): a record once per reference row of its code, in the order *)
(* of the records, or once with a missing State when there is none        *)
merge_states(table, airport_states) ==
  Flatten(Tuple([i \in DOMAIN table |->
    LET matches == SelectSeq(airport_states,
                             LAMBDA a : a.IATA = JoinKey(table[i]))
    IN IF matches = <<>> THEN <<table[i] @@ ("State" :> NaNName)>>
       ELSE Tuple([m \in DOMAIN matches |->
                     table[i] @@ ("State" :> matches[m].State)])]))

(* data.groupby("State").size().reset_index(name="Total_Flights") with    *)
(* the period label, lines 243-246                                        *)
summarize_states(data, label) ==
  LET states == {data[i].State : i \in DOMAIN data} \ {NaNName}
      keys == SortSet(states, LAMBDA x, y :
                RankIn(StateNames, x) < RankIn(StateNames, y))
  IN Tuple([k \in DOMAIN keys |->
        [State |-> keys[k],
         Total_Flights |->
           Cardinality({i \in DOMAIN data : data[i].State = keys[k]}),
         Period |-> label]])

(* combined.groupby("State")["Total_Flights"].sum() *)
SumByState(combined) ==
  LET states == {combined[i].State : i \in DOMAIN combined}
      keys == SortSet(states, LAMBDA x, y :
                RankIn(StateNames, x) < RankIn(StateNames, y))
  IN Tuple([k \in DOMAIN keys |->
        [key |-> keys[k],
         total |-> LET mine == SelectSeq(combined, LAMBDA r : r.State = keys[k])
                   IN SumSeq(Tuple([m \in DOMAIN mine |->
                                      mine[m].Total_Flights]))]])

(* _build_state_comparison *)
build_state_comparison(table, airports) ==
  LET merged == SelectSeq(merge_states(table, airport_states_of(airports)),
                          LAMBDA r : r.State # NaNName)
      aug_2018 == PeriodRows(merged, 2018, 8)
      jan_2020 == PeriodRows(merged, 2020, 1)
      frames ==
        (IF aug_2018 # <<>> THEN <<summarize_states(aug_2018, "August 2018")>>
         ELSE <<>>)
        \o (IF jan_2020 # <<>>
            THEN <<summarize_states(jan_2020, "January 2020")>> ELSE <<>>)
      combined == Flatten(frames)
      top_states == nlargest(SumByState(combined))
  IN IF table = <<>> \/ airports = <<>> THEN <<>>
     ELSE IF aug_2018 = <<>> /\ jan_2020 = <<>> THEN <<>>
     ELSE SelectSeq(combined, LAMBDA r : r.State \in top_states)

(* ------------ pages/volume/visuals.py: the Sankey layout -------------- *)
(* the sum of the values of the links leaving, or entering, a node *)
TotalOut(links, idx) ==
  LET mine == SelectSeq(links, LAMBDA l : l.source = idx)
  IN SumSeq(Tuple([k \in DOMAIN mine |-> mine[k].value]))

TotalIn(links, idx) ==
  LET mine == SelectSeq(links, LAMBDA l : l.target = idx)
  IN SumSeq(Tuple([k \in DOMAIN mine |-> mine[k].value]))

(* "Others" in all_node_labels[idx] *)
IsOthersLabel(label) == label.name = OthersName

(* mutant of LargerFirst: reverse=True forgotten *)
LargerFirst_Ascending(total_a, total_b) == total_a < total_b

(* the order of key=totals.get with reverse=True, line 389 *)
LargerFirst(total_a, total_b) == total_a > total_b

(* regular.sort(key=lambda idx: totals.get(idx, 0), reverse=True): stable *)
SortRegular(regular, totals) ==
  StableSort(regular, LAMBDA a, b : LargerFirst(totals[a], totals[b]))

(* lines 386-390 *)
sort_indices(indices, totals, all_node_labels) ==
  LET others == SelectSeq(indices,
                          LAMBDA idx : IsOthersLabel(all_node_labels[idx + 1]))
      regular == SelectSeq(indices, LAMBDA idx : idx \notin Range(others))
  IN SortRegular(regular, totals) \o others

(* lines 378-384 *)
totals_left(left_indices, links) ==
  [i \in Range(left_indices) |-> TotalOut(links, i)]

totals_right(right_indices, links) ==
  [i \in Range(right_indices) |-> TotalIn(links, i)]

(* index_map[old], line 395 *)
index_map(new_order, old) ==
  (CHOOSE new \in DOMAIN new_order : new_order[new] = old) - 1

NoFigure == [drawn |-> FALSE, left_sorted |-> <<>>, right_sorted |-> <<>>,
             label |-> <<>>, links |-> <<>>]

render_airline_sankey(node_labels_2018, node_labels_2020, all_node_labels, links) ==
  LET left_indices == Tuple([k \in 1..Len(node_labels_2018) |-> k - 1])
      right_indices ==
        Tuple([k \in 1..(Len(all_node_labels) - Len(node_labels_2018)) |->
                 Len(node_labels_2018) + k - 1])
      left_sorted ==
        sort_indices(left_indices, totals_left(left_indices, links),
                     all_node_labels)
      right_sorted ==
        sort_indices(right_indices, totals_right(right_indices, links),
                     all_node_labels)
      new_order == left_sorted \o right_sorted
  IN [drawn |-> TRUE, left_sorted |-> left_sorted,
      right_sorted |-> right_sorted,
      label |-> Tuple([k \in DOMAIN new_order |->
                         all_node_labels[new_order[k] + 1]]),
      links |-> Tuple([k \in DOMAIN links |->
                         Link(index_map(new_order, links[k].source),
                              index_map(new_order, links[k].target),
                              links[k].value)])]

(* ------- pages/best_airline/visuals.py: route recommendations --------- *)
(* mutant of RouteRows: the destination is not compared *)
RouteRows_AnyDestination(table, origin_code, destination_code) ==
  SelectSeq(table, LAMBDA row : row.ORIGIN_AIRPORT = origin_code)

(* lines 84-85 *)
RouteRows(table, origin_code, destination_code) ==
  SelectSeq(table, LAMBDA row : /\ row.ORIGIN_AIRPORT = origin_code
                                /\ row.DEST_AIRPORT = destination_code)

(* Series.nunique() of YearWeek over a set of row positions *)
DistinctWeeks(route_df, rows) ==
  Cardinality({YearWeek(route_df[i].FL_DATE) : i \in rows})

(* max(int(route_df["YearWeek"].nunique()), 1), line 93 *)
WeeksObserved(route_df) == Max2(DistinctWeeks(route_df, DOMAIN route_df), 1)

(* a numeric cell ordered for sorting: a missing value sorts last *)
CellBefore(a, b) ==
  \/ a # {} /\ b = {}
  \/ a # {} /\ b # {} /\ (CHOOSE x \in a : TRUE) < (CHOOSE y \in b : TRUE)

(* mutant of GroupKeys: the groups with a missing id or name are dropped *)
GroupKeys_DropMissing(route_df) ==
  LET keys == {<<route_df[i].AIRLINE_ID, route_df[i].Airline_Name>> :
                 i \in {j \in DOMAIN route_df :
                          /\ route_df[j].AIRLINE_ID # {}
                          /\ route_df[j].Airline_Name # NaNName}}
  IN SortSet(keys, LAMBDA x, y :
       \/ CellBefore(x[1], y[1])
       \/ x[1] = y[1] /\ NameIndex(x[2]) < NameIndex(y[2]))

(* the group keys of groupby(["AIRLINE_ID", "Airline_Name"], dropna=False), *)
(* in sorted order *)
GroupKeys(route_df) ==
  LET keys == {<<route_df[i].AIRLINE_ID, route_df[i].Airline_Name>> :
                 i \in DOMAIN route_df}
  IN SortSet(keys, LAMBDA x, y :
       \/ CellBefore(x[1], y[1])
       \/ x[1] = y[1] /\ NameIndex(x[2]) < NameIndex(y[2]))

GroupMembers(route_df, key) ==
  {i \in DOMAIN route_df :
     <<route_df[i].AIRLINE_ID, route_df[i].Airline_Name>> = key}

(* mutant of MeanArrDelay: the sum in place of the mean *)
MeanArrDelay_Sum(route_df, rows) ==
  LET present == {i \in rows : route_df[i].ARR_DELAY # {}}
  IN [num |-> SumSet(present,
                     [i \in present |-> CHOOSE v \in route_df[i].ARR_DELAY : TRUE]),
      den |-> IF present = {} THEN 0 ELSE 1]

(* ("ARR_DELAY", "mean"): the mean of the values present, as a fraction *)
MeanArrDelay(route_df, rows) ==
  LET present == {i \in rows : route_df[i].ARR_DELAY # {}}
  IN [num |-> SumSet(present,
                     [i \in present |-> CHOOSE v \in route_df[i].ARR_DELAY : TRUE]),
      den |-> Cardinality(present)]

(* s <= 0 on one cell: False on a missing value *)
IsOnTime(cell) == cell # {} /\ (CHOOSE v \in cell : TRUE) <= 0

(* ("ARR_DELAY", lambda s: (s <= 0).mean()) *)
OnTimeRateOf(route_df, rows) ==
  [num |-> Cardinality({i \in rows : IsOnTime(route_df[i].ARR_DELAY)}),
   den |-> Cardinality(rows)]

(* numpy round: half to even, of the fraction n / d with d > 0 *)
RoundHalfEven(n, d) ==
  LET q == n \div d
      r == n - q * d
  IN IF 2 * r < d THEN q
     ELSE IF 2 * r > d THEN q + 1
     ELSE IF q % 2 = 0 THEN q ELSE q + 1

(* lines 105-110: WeeksWithFlights of a group after the left merge on      *)
(* AIRLINE_ID; groupby("AIRLINE_ID") drops the rows without an id          *)
WeeksWithFlights(route_df, id) ==
  IF id = {} THEN {}
  ELSE {Max2(DistinctWeeks(route_df,
               {i \in DOMAIN route_df : route_df[i].AIRLINE_ID = id}), 1)}

(* (Flights / WeeksWithFlights).round(1), in tenths *)
FlightsPerWeek(flights, weeks) ==
  IF weeks = {} THEN {}
  ELSE {RoundHalfEven(10 * flights, CHOOSE w \in weeks : TRUE)}

(* lines 95-112 *)
Grouped(route_df) ==
  LET keys == GroupKeys(route_df)
  IN Tuple([k \in DOMAIN keys |->
        LET rows == GroupMembers(route_df, keys[k])
        IN [AIRLINE_ID |-> keys[k][1],
            Airline_Name |-> keys[k][2],
            Flights |-> Cardinality(rows),
            AvgArrivalDelay |-> MeanArrDelay(route_df, rows),
            OnTimeRate |-> OnTimeRateOf(route_df, rows),
            FlightsPerWeek |->
              FlightsPerWeek(Cardinality(rows),
                             WeeksWithFlights(route_df, keys[k][1]))]])

(* fractions with a zero denominator are NaN *)
FracLess(a, b) == a.den > 0 /\ b.den > 0 /\ a.num * b.den < b.num * a.den
FracEqual(a, b) ==
  \/ a.den = 0 /\ b.den = 0
  \/ a.den > 0 /\ b.den > 0 /\ a.num * b.den = b.num * a.den

(* mutant of RanksBefore: sorted by the mean alone *)
RanksBefore_MeanOnly(a, b) ==
  \/ FracLess(a.AvgArrivalDelay, b.AvgArrivalDelay)
  \/ a.AvgArrivalDelay.den > 0 /\ b.AvgArrivalDelay.den = 0

(* the order of sort_values(by=["AvgArrivalDelay", "OnTimeRate"],         *)
(* ascending=[True, False]), NaN last *)
RanksBefore(a, b) ==
  \/ FracLess(a.AvgArrivalDelay, b.AvgArrivalDelay)
  \/ a.AvgArrivalDelay.den > 0 /\ b.AvgArrivalDelay.den = 0
  \/ /\ FracEqual(a.AvgArrivalDelay, b.AvgArrivalDelay)
     /\ FracLess(b.OnTimeRate, a.OnTimeRate)

(* .head(3), line 116 *)
Head3(s) == SubSeq(s, 1, IF Len(s) < TopRanked THEN Len(s) ELSE TopRanked)

(* lines 114-116 *)
Ranked(grouped) == Head3(StableSort(grouped, RanksBefore))

(* lines 117-135: the columns of the returned table *)
ResultRow(g) ==
  [Airline |-> g.Airline_Name,
   FlightsPerWeek |-> g.FlightsPerWeek,
   OnTimePct |-> RoundHalfEven(1000 * g.OnTimeRate.num, g.OnTimeRate.den),
   AvgArrivalDelay |-> g.AvgArrivalDelay]

get_route_recommendations(table, origin_code, destination_code) ==
  LET route_df == RouteRows(table, origin_code, destination_code)
      top == Ranked(Grouped(route_df))
  IN IF route_df = <<>>
     THEN [recommendations |-> <<>>, sample_size |-> 0, weeks_observed |-> 0]
     ELSE [recommendations |-> Tuple([k \in DOMAIN top |-> ResultRow(top[k])]),
           sample_size |-> Len(route_df),
           weeks_observed |-> WeeksObserved(route_df)]

(* what render_visuals shows for a result, lines 46-71 *)
RouteMessage(result) ==
  IF result.sample_size = 0 THEN "no_flights_found"
  ELSE IF result.recommendations = <<>> THEN "too_few_flights"
  ELSE "ranking"

(* ------- pages/context/visuals.py: the performance waterfall ---------- *)
(* the number of rows whose cell satisfies a comparison: a comparison     *)
(* with a missing value is False                                          *)
CountWhere(data_df, Test(_)) ==
  Cardinality({i \in DOMAIN data_df : Test(data_df[i])})

(* (data_df["DEP_DELAY"] > 0).sum(), line 88 *)
Delayed(data_df) ==
  CountWhere(data_df, LAMBDA row :
    row.DEP_DELAY # {} /\ (CHOOSE v \in row.DEP_DELAY : TRUE) > 0)

(* (data_df["DEP_DELAY"] <= 0).sum(), line 89 *)
OnTime(data_df) ==
  CountWhere(data_df, LAMBDA row :
    row.DEP_DELAY # {} /\ (CHOOSE v \in row.DEP_DELAY : TRUE) <= 0)

(* _calculate_period_metrics: three rows of (Period, Category, Count) *)
calculate_period_metrics(data_df, period_name) ==
  <<[Period |-> period_name, Category |-> "Total Flights",
     Count |-> Len(data_df)],
    [Period |-> period_name, Category |-> "Total Delayed",
     Count |-> Delayed(data_df)],
    [Period |-> period_name, Category |-> "Total On Time/Early",
     Count |-> OnTime(data_df)]>>

(* combined.groupby("Category")["Count"].sum().get(category, 0) *)
CategoryTotal(combined, category) ==
  LET mine == SelectSeq(combined, LAMBDA r : r.Category = category)
  IN SumSeq(Tuple([k \in DOMAIN mine |-> mine[k].Count]))

NoWaterfall == [status |-> "None", x |-> <<>>, y |-> <<>>, measures |-> <<>>]

(* mutant of WaterfallUnavailable: None when either period is empty *)
WaterfallUnavailable_EitherEmpty(aug, jan) == aug = <<>> \/ jan = <<>>

(* the test of line 56 *)
WaterfallUnavailable(aug, jan) == aug = <<>> /\ jan = <<>>

(* _build_performance_waterfall_data *)
build_performance_waterfall_data(table) ==
  LET aug == PeriodRows(table, 2018, 8)
      jan == PeriodRows(table, 2020, 1)
      frames ==
        (IF aug # <<>> THEN <<calculate_period_metrics(aug, "August 2018")>>
         ELSE <<>>)
        \o (IF jan # <<>> THEN <<calculate_period_metrics(jan, "January 2020")>>
            ELSE <<>>)
      combined == Flatten(frames)
      categories ==
        <<CategoryTotal(combined, "Total On Time/Early"),
          CategoryTotal(combined, "Total Delayed"),
          CategoryTotal(combined, "Total Flights")>>
  IN IF WaterfallUnavailable(aug, jan) THEN NoWaterfall
     ELSE IF frames = <<>> THEN NoWaterfall
     ELSE IF categories[3] = 0 THEN NoWaterfall
     ELSE [status |-> "ok",
           x |-> <<"On Time/Early Flights", "Delayed Flights", "Total Flights">>,
           y |-> categories,
           measures |-> <<"relative", "relative", "total">>]

(* ----------- pages/delay/visuals.py: the delay map -------------------- *)
(* Series.fillna(0) on one cell *)
fillna(cell) == IF cell = {} THEN {0} ELSE cell

(* lines 39-40 on a table *)
fillna_delays(table) ==
  Tuple([i \in DOMAIN table |->
           [table[i] EXCEPT !.WEATHER_DELAY = fillna(@), !.ARR_DELAY = fillna(@)]])

(* the value of a cell that holds one; comparisons with a missing value   *)
(* are False                                                              *)
CellValue(cell) == CHOOSE v \in cell : TRUE
Above0(cell) == cell # {} /\ CellValue(cell) > 0
Is0(cell) == cell # {} /\ CellValue(cell) = 0

(* the index of df[df["WEATHER_DELAY"] > 0], line 42 *)
WeatherRows(table) == {i \in DOMAIN table : Above0(table[i].WEATHER_DELAY)}

(* mutant of OtherRows: the weather delay is not looked at *)
OtherRows_AnyWeather(table) == {i \in DOMAIN table : Above0(table[i].ARR_DELAY)}

(* the index of df[(df["ARR_DELAY"] > 0) & (df["WEATHER_DELAY"] == 0)],   *)
(* line 55                                                                *)
OtherRows(table) ==
  {i \in DOMAIN table : Above0(table[i].ARR_DELAY) /\ Is0(table[i].WEATHER_DELAY)}

(* the values of a column at a set of positions, in ascending order *)
SortedValues(table, rows, column) ==
  LET idx == SortSet(rows, LAMBDA i, j :
               \/ CellValue(table[i][column]) < CellValue(table[j][column])
               \/ /\ CellValue(table[i][column]) = CellValue(table[j][column])
                  /\ i < j)
  IN Tuple([k \in DOMAIN idx |-> CellValue(table[idx[k]][column])])

(* "median" of the values present at the positions, as a fraction *)
Median(table, rows, column) ==
  LET present == {i \in rows : table[i][column] # {}}
      values == SortedValues(table, present, column)
      n == Len(values)
  IN IF n = 0 THEN [num |-> 0, den |-> 0]
     ELSE IF n % 2 = 1 THEN [num |-> values[(n + 1) \div 2], den |-> 1]
     ELSE [num |-> values[n \div 2] + values[n \div 2 + 1], den |-> 2]

(* "mean" of the values present at the positions, as a fraction *)
ColumnMean(table, rows, column) ==
  LET present == {i \in rows : table[i][column] # {}}
  IN [num |-> SumSet(present, [i \in present |-> CellValue(table[i][column])]),
      den |-> Cardinality(present)]

(* "sum" of the values present at the positions *)
ColumnSum(table, rows, column) ==
  LET present == {i \in rows : table[i][column] # {}}
  IN [num |-> SumSet(present, [i \in present |-> CellValue(table[i][column])]),
      den |-> 1]

(* groupby("ORIGIN_AIRPORT")[column].agg(["sum", "mean", "median"]) of    *)
(* the rows of a partition, lines 43-48 and 56-61                         *)
DelayStats(table, rows, column) ==
  LET codes == {table[i].ORIGIN_AIRPORT : i \in rows}
      keys == SortSet(codes, LAMBDA x, y :
                RankIn(AirportCodes, x) < RankIn(AirportCodes, y))
  IN Tuple([k \in DOMAIN keys |->
        LET mine == {i \in rows : table[i].ORIGIN_AIRPORT = keys[k]}
        IN [ORIGIN_AIRPORT |-> keys[k],
            Total |-> ColumnSum(table, mine, column),
            Avg |-> ColumnMean(table, mine, column),
            Median |-> Median(table, mine, column)]])

(* stats.merge(airports_us[[...]], left_on="ORIGIN_AIRPORT",              *)
(* right_on="IATA"): an inner join, lines 49-53 and 62-66                 *)
merge_airports(stats, airports) ==
  Flatten(Tuple([k \in DOMAIN stats |->
    LET matches == SelectSeq(airports,
                             LAMBDA a : a.IATA = stats[k].ORIGIN_AIRPORT)
    IN Tuple([m \in DOMAIN matches |->
          stats[k] @@ [IATA |-> matches[m].IATA,
                       Latitude |-> matches[m].Latitude,
                       Longitude |-> matches[m].Longitude,
                       Airport_Name |-> matches[m].Airport_Name]])]))

(* mutant of ColumnMax: the smallest value of the column *)
ColumnMax_Min(values) ==
  CHOOSE v \in Range(values) :
    \A w \in Range(values) : v.num * w.den <= w.num * v.den

(* values.max() of a column of fractions *)
ColumnMax(values) ==
  CHOOSE v \in Range(values) :
    \A w \in Range(values) : w.num * v.den <= v.num * w.den

(* value / max * multiplier, then fillna(0): a fraction, whose            *)
(* denominator is 0 when a value other than 0 is divided by 0             *)
ScaledSize(value, max, multiplier) ==
  IF max.num # 0
  THEN [num |-> value.num * max.den * multiplier, den |-> value.den * max.num]
  ELSE IF value.num = 0 THEN [num |-> 0, den |-> 1]
  ELSE [num |-> value.num, den |-> 0]

(* get_size_list, lines 68-72 *)
get_size_list(dataset, col, multiplier) ==
  IF dataset = <<>> THEN <<>>
  ELSE LET values == Tuple([k \in DOMAIN dataset |-> dataset[k][col]])
       IN Tuple([k \in DOMAIN values |->
                   ScaledSize(values[k], ColumnMax(values), multiplier)])

(* the arrays of one trace of the map, lines 74-90 *)
TraceArrays(rows, dataset, multiplier) ==
  [rows |-> rows,
   airports |-> Tuple([k \in DOMAIN dataset |-> dataset[k].ORIGIN_AIRPORT]),
   lon |-> Tuple([k \in DOMAIN dataset |-> dataset[k].Longitude]),
   lat |-> Tuple([k \in DOMAIN dataset |-> dataset[k].Latitude]),
   txt |-> Tuple([k \in DOMAIN dataset |->
                    [name |-> dataset[k].Airport_Name,
                     code |-> dataset[k].ORIGIN_AIRPORT]]),
   custom |-> Tuple([k \in DOMAIN dataset |->
                       <<dataset[k].Total, dataset[k].Avg, dataset[k].Median>>]),
   size_tot |-> get_size_list(dataset, "Total", multiplier),
   size_avg |-> get_size_list(dataset, "Avg", multiplier),
   size_med |-> get_size_list(dataset, "Median", multiplier)]

(* create_delay_map on the local table of lines 38-40: the two traces,    *)
(* each with the index of its partition                                   *)
delay_map_of(local, airports, multiplier) ==
  [weather |->
     TraceArrays(WeatherRows(local),
                 merge_airports(DelayStats(local, WeatherRows(local),
                                           "WEATHER_DELAY"), airports),
                 multiplier),
   other |->
     TraceArrays(OtherRows(local),
                 merge_airports(DelayStats(local, OtherRows(local),
                                           "ARR_DELAY"), airports),
                 multiplier)]

(* create_delay_map: the figure's arrays, and the caller's table after    *)
(* the call (lines 38-40 write to the local table)                        *)
create_delay_map(table, airports, multiplier) ==
  LET local == copy(Frames(table), "df")
      filled == setitem(local.frames, local.frame,
                        fillna_delays(local.frames[local.frame]))
  IN [figure |-> delay_map_of(filled[local.frame], airports, multiplier),
      df |-> filled.df]

(* ------- pages/delay/visuals.py: the daily period comparison ---------- *)
(* FL_DATE.dt.to_period("M").astype(str) and FL_DATE.dt.day, lines 228-229 *)
with_period_and_day(table) ==
  Tuple([i \in DOMAIN table |->
           table[i] @@ [Period |-> [year |-> table[i].FL_DATE.year,
                                     month |-> table[i].FL_DATE.month],
                        day_of_month |-> table[i].FL_DATE.day]])

(* periods = ("2018-08", "2020-01"), line 217 *)
periods == {[year |-> 2018, month |-> 8], [year |-> 2020, month |-> 1]}

NoPeriodComparison ==
  [status |-> "None", daily |-> <<>>, records |-> 0, days |-> 0]

(* lines 234-241: the daily means, in the order of (Period, day_of_month) *)
daily_of(filtered) ==
  LET keys == SortSet({<<filtered[i].Period, filtered[i].day_of_month>> :
                         i \in DOMAIN filtered},
                      LAMBDA x, y :
                        \/ x[1].year < y[1].year
                        \/ x[1].year = y[1].year /\ x[1].month < y[1].month
                        \/ x[1] = y[1] /\ x[2] < y[2])
  IN Tuple([k \in DOMAIN keys |->
        LET mine == {i \in DOMAIN filtered :
                       <<filtered[i].Period, filtered[i].day_of_month>> = keys[k]}
        IN [Period |-> keys[k][1], day_of_month |-> keys[k][2],
            DEP_DELAY |-> ColumnMean(filtered, mine, "DEP_DELAY"),
            ARR_DELAY |-> ColumnMean(filtered, mine, "ARR_DELAY")]])

(* create_delay_period_comparison: the figures' data with the meta        *)
(* record, and the caller's table after the call                          *)
create_delay_period_comparison(table) ==
  LET local == copy(Frames(table), "df")
      written == setitem(local.frames, local.frame,
                         with_period_and_day(local.frames[local.frame]))
      filtered == SelectSeq(written[local.frame],
                            LAMBDA row : row.Period \in periods)
      daily == daily_of(filtered)
  IN IF table = <<>> THEN [result |-> NoPeriodComparison, df |-> table]
     ELSE IF filtered = <<>>
     THEN [result |-> NoPeriodComparison, df |-> written.df]
     ELSE [result |->
             [status |-> "ok", daily |-> daily, records |-> Len(filtered),
              days |-> Cardinality({daily[k].day_of_month : k \in DOMAIN daily})],
           df |-> written.df]

(* --------- the caller's table after the other pages' calls ------------ *)
(* FL_DATE.dt.day_name() *)
DayNames ==
  <<"Monday", "Tuesday", "Wednesday", "Thursday", "Friday", "Saturday", "Sunday">>

day_name(date) == DayNames[((DaysFromCivil(date) + 3) % 7) + 1]

(* volume render_visuals, lines 35 and 47: work_df = df.copy() and        *)
(* work_df["Day"] = ...                                                   *)
volume_frames(table) ==
  LET local == copy(Frames(table), "df")
  IN [frames |->
        setitem(local.frames, local.frame,
                Tuple([i \in DOMAIN local.frames[local.frame] |->
                         local.frames[local.frame][i]
                           @@ [Day |-> day_name(local.frames[local.frame][i].FL_DATE)]])),
      frame |-> local.frame]

(* context render_visuals, line 24: work_df = df.copy() *)
context_frames(table) == copy(Frames(table), "df")

(* _get_route_recommendations, lines 84-92: route_df is a copy of the     *)
(* selection and gets the YearWeek column                                 *)
route_frames(table, origin_code, destination_code) ==
  LET selected == setitem(Frames(table), "selection",
                          RouteRows(table, origin_code, destination_code))
      local == copy(selected, "selection")
      route_df == local.frames[local.frame]
  IN IF route_df = <<>> THEN local
     ELSE [frames |->
             setitem(local.frames, local.frame,
                     Tuple([i \in DOMAIN route_df |->
                              route_df[i]
                                @@ [YearWeek |-> YearWeek(route_df[i].FL_DATE)]])),
           frame |-> local.frame]

(* ----------------------- the tables of Init --------------------------- *)
Aug2018 == Date(2018, 8, 1)
Aug2018NextWeek == Date(2018, 8, 6)
Jan2020 == Date(2020, 1, 1)
May2019 == Date(2019, 5, 1)

IdOf(name) == IF name = NaNName THEN {} ELSE {NameIndex(name)}

Flight(date, name) == Row(date, "JFK", "LAX", IdOf(name), name, {0})

CrossSeq(xs, ys, F(_, _)) ==
  Tuple([k \in 1..(Len(xs) * Len(ys)) |->
           F(xs[((k - 1) \div Len(ys)) + 1], ys[((k - 1) % Len(ys)) + 1])])

(* volume family: a few flights of two airlines (or of none) in the two   *)
(* canonical months or outside them ...                                    *)
VolumeRows ==
  CrossSeq(<<Aug2018, Jan2020>>, <<"A", "K", NaNName>>, Flight)
    \o <<Flight(May2019, "A")>>

(* ... with or without nine more airlines of one flight in each month,   *)
(* the first of them with a second flight in January 2020                 *)
BackgroundAirlines == <<"B", "C", "D", "E", "F", "G", "H", "I", "J">>

Background ==
  Flatten(Tuple([k \in DOMAIN BackgroundAirlines |->
                   <<Flight(Aug2018, BackgroundAirlines[k]),
                     Flight(Jan2020, BackgroundAirlines[k])>>]))
    \o <<Flight(Jan2020, BackgroundAirlines[1])>>

(* the flights that come before the nine airlines' *)
LeadingRows ==
  <<Flight(Aug2018, "A"), Flight(Aug2018, "K"), Flight(Jan2020, "K"),
    Flight(Aug2018, NaNName)>>

VolumeTables ==
  TablesOver(VolumeRows, MaxVolumeRows)
    \cup {t \o Background : t \in TablesOver(LeadingRows, MaxVolumeRows)}

(* ranking family: flights of four airlines on JFK -> LAX in one week,   *)
(* arriving early, on time or late                                        *)
RankingFlight(name, arr) == Row(Aug2018, "JFK", "LAX", IdOf(name), name, arr)

RankingRows ==
  <<RankingFlight("A", {-1}), RankingFlight("A", {1}),
    RankingFlight("B", {0}),
    RankingFlight("C", {0}), RankingFlight("C", {1}),
    RankingFlight("D", {1})>>

RankingTables == TablesOver(RankingRows, MaxRankingRows)

(* mixed family: two airlines on JFK -> LAX in two weeks, arrival delays *)
(* present or missing, and a flight of the reverse direction              *)
MixedFlight(name, date, origin, arr) ==
  Row(date, origin, IF origin = "JFK" THEN "LAX" ELSE "JFK", IdOf(name), name, arr)

MixedRows ==
  CrossSeq(CrossSeq(<<"A", "B">>, <<Aug2018, Aug2018NextWeek>>,
                    LAMBDA name, date : <<name, date>>),
           <<{1}, {}>>,
           LAMBDA nd, arr : MixedFlight(nd[1], nd[2], "JFK", arr))
    \o <<MixedFlight("A", Aug2018, "LAX", {1})>>

MixedTables == TablesOver(MixedRows, MaxMixedRows)

(* the scenario of the specification: JFK -> LAX, one week, airline A     *)
(* arriving 5 and 3 minutes early, airline B arriving 10 minutes late     *)
JfkLaxScenario ==
  <<Row(Date(2018, 8, 1), "JFK", "LAX", IdOf("A"), "A", {-5}),
    Row(Date(2018, 8, 2), "JFK", "LAX", IdOf("A"), "A", {-3}),
    Row(Date(2018, 8, 3), "JFK", "LAX", IdOf("B"), "B", {10})>>

(* one airline id carried under two display names, in two weeks           *)
SharedIdScenario ==
  <<Row(Aug2018, "JFK", "LAX", IdOf("A"), "A", {0}),
    Row(Aug2018NextWeek, "JFK", "LAX", IdOf("A"), "B", {1})>>

(* the airport-reference tables: every airport with its state, the last *)
(* background airport in the state of the first ...                       *)
BackgroundAirports ==
  <<"A01", "A02", "A03", "A04", "A05", "A06", "A07", "A08", "A09", "A10">>

BackgroundReference ==
  Tuple([k \in DOMAIN BackgroundAirports |->
           Airport(BackgroundAirports[k],
                   StateNames[IF k = 10 THEN 4 ELSE k + 3],
                   BackgroundAirports[k], k, k)])

RefFull ==
  <<Airport("JFK", "NY", "Kennedy", 40, -73),
    Airport("LAX", "CA", "Los Angeles", 33, -118)>> \o BackgroundReference

(* ... LAX without a state, LAX absent, JFK listed twice, and the         *)
(* reference table without rows                                           *)
RefNoState == [RefFull EXCEPT ![2].State = NaNName]
RefNoLax == <<RefFull[1]>> \o BackgroundReference
RefDuplicate == <<Airport("JFK", "NJ", "Kennedy", 40, -73)>> \o RefFull
RefEmpty == <<>>

RefTables == {RefFull, RefNoState, RefDuplicate, RefEmpty}

(* airport family: flights from three airports, one of them in no         *)
(* reference table, in the two canonical months or outside them ...       *)
AirportFlight(date, code) ==
  Row(date, code, IF code = "JFK" THEN "LAX" ELSE "JFK", IdOf("A"), "A", {0})

AirportRows ==
  CrossSeq(<<Aug2018, Jan2020>>, <<"JFK", "LAX", "XXX">>, AirportFlight)
    \o <<AirportFlight(May2019, "JFK")>>

(* ... with or without the flights of ten more airports in August 2018,   *)
(* two of them from the first                                             *)
AirportBackground ==
  Tuple([k \in DOMAIN BackgroundAirports |->
           Row(Aug2018, BackgroundAirports[k], "JFK", IdOf("B"), "B", {0})])
    \o <<Row(Aug2018, BackgroundAirports[1], "JFK", IdOf("B"), "B", {0})>>

AirportFreeTables == TablesOver(AirportRows, MaxAirportRows)

AirportTables ==
  AirportFreeTables
    \cup {t \o AirportBackground : t \in TablesOver(AirportRows, MaxAirportRows - 1)}

(* delay family: flights from two airports with a weather delay, another *)
(* arrival delay, both or none, recorded or missing                       *)
DelayFlight(code, weather, arr) ==
  [AirportFlight(Aug2018, code) EXCEPT !.WEATHER_DELAY = weather,
                                       !.ARR_DELAY = arr]

DelayRows ==
  <<DelayFlight("JFK", {}, {-1}), DelayFlight("JFK", {}, {1}),
    DelayFlight("JFK", {2}, {1}), DelayFlight("JFK", {4}, {}),
    DelayFlight("LAX", {0}, {3}), DelayFlight("LAX", {4}, {1})>>

DelayTables == TablesOver(DelayRows, MaxDelayRows)

DelayRefTables == {RefFull, RefNoLax, RefDuplicate}

(* waterfall family: flights in the two canonical months or outside      *)
(* them, leaving late, on time, or with no departure delay recorded       *)
WaterfallRows ==
  CrossSeq(<<Aug2018, Jan2020>>, <<{0}, {1}, {}>>,
           LAMBDA date, dep : [Flight(date, "A") EXCEPT !.DEP_DELAY = dep])
    \o <<Flight(May2019, "A")>>

WaterfallTables == TablesOver(WaterfallRows, MaxWaterfallRows)

Tables ==
  VolumeTables \cup RankingTables \cup MixedTables \cup WaterfallTables
    \cup AirportTables \cup DelayTables
    \cup {JfkLaxScenario, SharedIdScenario}

(* --------------------------- state machine ---------------------------- *)
VARIABLES
  df,            \* the flight-records table handed to every page
  airports_us,   \* the airport-reference table handed to every page
  page,          \* what this script run has rendered: "none", "volume",
                 \* "context", "delay", "best_airline", or "call" and
                 \* "calls" for direct calls of a builder
  sankey,        \* _build_airline_sankey_data's result and its two summaries
  sankey_again,  \* the result of a second call of that builder
  figure,        \* _render_airline_sankey's node order and remapped links
  origin,        \* the route the recommendations were asked for
  destination,
  result,        \* _get_route_recommendations' triple
  message,       \* what the page shows in place of, or with, its output
  waterfall,     \* _build_performance_waterfall_data's result
  top_airports,  \* top_airports of _render_busiest_airports
  airlines_data, \* _build_airline_comparison's result
  states_data,   \* _build_state_comparison's result
  delay_map,     \* the arrays of create_delay_map's two traces
  period_comparison  \* create_delay_period_comparison's daily table and meta

vars ==
  <<df, airports_us, page, sankey, sankey_again, figure, origin, destination,
    result, message, waterfall, top_airports, airlines_data, states_data,
    delay_map, period_comparison>>

NotBuilt == [NoSankey EXCEPT !.status = "not_built"]
NoResult == [recommendations |-> <<>>, sample_size |-> 0, weeks_observed |-> 0]
NotComputed == [NoWaterfall EXCEPT !.status = "not_computed"]
NoDelayMap == delay_map_of(<<>>, <<>>, marker_multiplier)
NotCompared == [NoPeriodComparison EXCEPT !.status = "not_compared"]

(* the outputs of the volume page, when it has not built them *)
NoComparison ==
  /\ top_airports' = <<>>
  /\ airlines_data' = <<>>
  /\ states_data' = <<>>

NoVolume ==
  /\ sankey' = NotBuilt /\ sankey_again' = NotBuilt /\ figure' = NoFigure
  /\ NoComparison

(* the outputs of the other pages, when they have not computed them *)
NoRoute == origin' = "" /\ destination' = "" /\ result' = NoResult
NoDelay == delay_map' = NoDelayMap /\ period_comparison' = NotCompared

(* the pairs of tables the program is started on *)
Inputs ==
  (AirportFreeTables \X RefTables) \cup (DelayTables \X DelayRefTables)
    \cup (Tables \X {RefFull})

Init ==
  /\ \E input \in Inputs : df = input[1] /\ airports_us = input[2]
  /\ top_airports = <<>>
  /\ airlines_data = <<>>
  /\ states_data = <<>>
  /\ page = "none"
  /\ sankey = NotBuilt
  /\ sankey_again = NotBuilt
  /\ figure = NoFigure
  /\ origin = ""
  /\ destination = ""
  /\ result = NoResult
  /\ message = ""
  /\ waterfall = NotComputed
  /\ delay_map = NoDelayMap
  /\ period_comparison = NotCompared

(* A script run renders one page (app.py, lines 50-60); every interaction *)
(* reruns the script from the top on the cached table.                    *)

(* volume render_visuals: unless the table is empty (lines 31-33) the    *)
(* page copies it, ranks the airports (line 42, given a reference table), *)
(* adds the Day column, builds the two comparison tables (lines 75-76)    *)
(* and the Sankey data, which it draws unless it is None (lines 87-93)    *)
VolumeRenderVisuals ==
  /\ page = "none"
  /\ page' = "volume"
  /\ NoRoute /\ NoDelay
  /\ waterfall' = NotComputed
  /\ sankey_again' = NotBuilt
  /\ LET local == volume_frames(df)
         work_df == local.frames[local.frame]
     IN /\ df' = IF df = <<>> THEN df ELSE local.frames.df
        /\ airlines_data' = IF df = <<>> THEN <<>>
                            ELSE build_airline_comparison(work_df)
        /\ states_data' = IF df = <<>> THEN <<>>
                          ELSE build_state_comparison(work_df, airports_us)
        /\ \E tie_2018 \in TieOrders, tie_2020 \in TieOrders,
              order \in IterationOrders :
             LET built ==
                   build_airline_sankey_data(work_df, tie_2018, tie_2020, order)
             IN IF df = <<>>
                THEN /\ sankey' = NotBuilt
                     /\ figure' = NoFigure
                     /\ message' = "no_flight_records"
                ELSE /\ sankey' = built
                     /\ figure' = IF built.status = "None" THEN NoFigure
                                  ELSE render_airline_sankey(
                                         built.node_labels_2018,
                                         built.node_labels_2020,
                                         built.all_labels, built.links)
                     /\ message' = IF built.status = "None"
                                   THEN "need_both_periods" ELSE "sankey"
        /\ \E tie \in TieOrders :
             top_airports' = IF df = <<>> \/ airports_us = <<>> THEN <<>>
                             ELSE top_airports_of(work_df, tie)
  /\ UNCHANGED airports_us

(* _build_airline_sankey_data called by two runs of the program on the    *)
(* same table: the library sorts equal counts the same way in both, the   *)
(* hash seed of each run gives its sets their iteration order             *)
BuildAirlineSankeyDataTwice ==
  /\ page = "none"
  /\ page' = "calls"
  /\ \E tie_2018 \in TieOrders, tie_2020 \in TieOrders :
       LET built == [order \in IterationOrders |->
                       build_airline_sankey_data(df, tie_2018, tie_2020, order)]
       IN \E first \in IterationOrders, second \in IterationOrders :
            /\ sankey' = built[first]
            /\ sankey_again' = built[second]
  /\ figure' = NoFigure
  /\ message' = ""
  /\ NoComparison /\ NoRoute /\ NoDelay
  /\ waterfall' = NotComputed
  /\ UNCHANGED <<df, airports_us>>

(* sorted(df["ORIGIN_AIRPORT"].dropna().unique()), line 19 *)
Origins(table) == {table[i].ORIGIN_AIRPORT : i \in DOMAIN table}

(* lines 26-29 *)
Destinations(table, origin_choice) ==
  {table[i].DEST_AIRPORT :
     i \in {j \in DOMAIN table : table[j].ORIGIN_AIRPORT = origin_choice}}

(* best_airline render_visuals with the two select boxes set *)
BestAirlineRenderVisuals(origin_choice, destination_choice) ==
  /\ page = "none"
  /\ df # <<>>
  /\ origin_choice \in Origins(df)
  /\ destination_choice \in Destinations(df, origin_choice)
  /\ page' = "best_airline"
  /\ origin' = origin_choice
  /\ destination' = destination_choice
  /\ result' = get_route_recommendations(df, origin_choice, destination_choice)
  /\ df' = route_frames(df, origin_choice, destination_choice).frames.df
  /\ message' = RouteMessage(result')
  /\ NoVolume /\ NoDelay
  /\ waterfall' = NotComputed
  /\ UNCHANGED airports_us

(* _get_route_recommendations called on any pair of airport codes *)
GetRouteRecommendations(o, d) ==
  /\ page = "none"
  /\ page' = "call"
  /\ origin' = o
  /\ destination' = d
  /\ result' = get_route_recommendations(df, o, d)
  /\ df' = route_frames(df, o, d).frames.df
  /\ message' = ""
  /\ NoVolume /\ NoDelay
  /\ waterfall' = NotComputed
  /\ UNCHANGED airports_us

(* context render_visuals, lines 20-24 and 38-46: the page computes the   *)
(* performance totals on a copy of the table                              *)
ContextRenderVisuals ==
  /\ page = "none"
  /\ page' = "context"
  /\ LET local == context_frames(df)
         work_df == local.frames[local.frame]
     IN IF df = <<>>
        THEN /\ waterfall' = NotComputed
             /\ message' = "load_the_dataset"
             /\ df' = df
        ELSE /\ waterfall' = build_performance_waterfall_data(work_df)
             /\ message' = IF waterfall'.status = "None"
                           THEN "need_period_data" ELSE "waterfall"
             /\ df' = local.frames.df
  /\ NoVolume /\ NoRoute /\ NoDelay
  /\ UNCHANGED airports_us

(* delay render_visuals, lines 16-21: the map, then the daily comparison  *)
(* of the two periods, each called with the page's table                  *)
DelayRenderVisuals ==
  /\ page = "none"
  /\ page' = "delay"
  /\ LET map == create_delay_map(df, airports_us, marker_multiplier)
         comparison == create_delay_period_comparison(map.df)
     IN /\ delay_map' = map.figure
        /\ period_comparison' = comparison.result
        /\ df' = comparison.df
        /\ message' = IF comparison.result.status = "None"
                      THEN "insufficient_records" ELSE "comparison"
  /\ NoVolume /\ NoRoute
  /\ waterfall' = NotComputed
  /\ UNCHANGED airports_us

(* the next script run starts from the cached table alone *)
Rerun ==
  /\ page # "none"
  /\ page' = "none"
  /\ message' = ""
  /\ NoVolume /\ NoRoute /\ NoDelay
  /\ waterfall' = NotComputed
  /\ UNCHANGED <<df, airports_us>>

Next ==
  \/ VolumeRenderVisuals
  \/ BuildAirlineSankeyDataTwice
  \/ \E o \in Airports, d \in Airports : BestAirlineRenderVisuals(o, d)
  \/ \E o \in Airports, d \in Airports : GetRouteRecommendations(o, d)
  \/ ContextRenderVisuals
  \/ DelayRenderVisuals
  \/ Rerun

Spec == Init /\ [][Next]_vars

(* ============================ properties ============================== *)
OthersId2018 == Len(sankey.node_labels_2018) - 1
OthersId2020 == Len(sankey.all_labels) - 1
Count2018(i) == sankey.data_2018[i].Flight_Count
Count2020(i) == sankey.data_2020[i].Flight_Count
Id2018(i) == i - 1
Id2020(i) == Len(sankey.node_labels_2018) + i - 1
LinksBetween(source, target) ==
  SelectSeq(sankey.links, LAMBDA l : l.source = source /\ l.target = target)

(* the rows of both summaries that name the same airline *)
CommonPairs ==
  {p \in (DOMAIN sankey.data_2018) \X (DOMAIN sankey.data_2020) :
     /\ sankey.data_2018[p[1]].Airline_Name = sankey.data_2020[p[2]].Airline_Name
     /\ sankey.data_2018[p[1]].Airline_Name # OthersName}

(* every record of the table carries an airline name *)
AllNamed == \A i \in DOMAIN df : df[i].Airline_Name # NaNName

(* C1: flow conservation. When the Sankey data is built, the values of    *)
(* the links leaving a period-1 node (a 2018 top airline or "2018:        *)
(* Others") add up to that node's period-1 Flight_Count. Stated on the    *)
(* tables whose records all carry an airline name.                        *)
C1_FlowConservation ==
  sankey.status = "ok" /\ AllNamed =>
    \A i \in DOMAIN sankey.data_2018 :
      TotalOut(sankey.links, Id2018(i)) = Count2018(i)

(* C2: for an airline in the top of both periods the same-airline link    *)
(* carries min(period-1 count, period-2 count), and a link into "2020:    *)
(* Others" carries period-1 count minus period-2 count exactly when the   *)
(* period-1 count is the larger. Stated on the tables whose records all   *)
(* carry an airline name.                                                 *)
C2_ContinuityCarriesMin ==
  sankey.status = "ok" /\ AllNamed =>
    \A p \in CommonPairs :
      LET same == LinksBetween(Id2018(p[1]), Id2020(p[2]))
          over == LinksBetween(Id2018(p[1]), OthersId2020)
          c1 == Count2018(p[1])
          c2 == Count2020(p[2])
      IN /\ Len(same) = 1
         /\ same[1].value = IF c1 <= c2 THEN c1 ELSE c2
         /\ (over # <<>>) <=> (c1 > c2)
         /\ over # <<>> => Len(over) = 1 /\ over[1].value = c1 - c2

(* C3: with the balancing link appended, the values of the links into     *)
(* "2020: Others" add up to the Flight_Count of the period-2 Others row.  *)
(* Stated on the tables whose records all carry an airline name.          *)
C3_OthersInflowBalanced ==
  sankey.status = "ok" /\ AllNamed =>
    TotalIn(sankey.links, OthersId2020)
      = Count2020(Len(sankey.data_2020))

(* what line 353 subtracts from: the links before the balancing link      *)
LinksBeforeBalancing == SubSeq(sankey.links, 1, Len(sankey.links) - 1)
Residual ==
  Count2020(Len(sankey.data_2020)) - TotalOut(LinksBeforeBalancing, OthersId2018)

(* C4: no link has a negative value; the last link is the balancing link  *)
(* from "2018: Others" to "2020: Others" and carries the residual, or 0   *)
(* when the residual is negative.                                         *)
C4_LinkValuesNonNegative ==
  sankey.status = "ok" =>
    /\ \A k \in DOMAIN sankey.links : sankey.links[k].value >= 0
    /\ sankey.links # <<>>
    /\ sankey.links[Len(sankey.links)]
         = Link(OthersId2018, OthersId2020, IF Residual < 0 THEN 0 ELSE Residual)

(* C4 witness: a built Sankey whose residual is negative and is clamped *)
C4_Witness ==
  /\ sankey.status = "ok"
  /\ Residual < 0
  /\ sankey.links[Len(sankey.links)].value = 0

(* the total the layout sorts a node by, from the links as built *)
NodeTotal(idx) ==
  IF idx <= OthersId2018 THEN TotalOut(sankey.links, idx)
  ELSE TotalIn(sankey.links, idx)

(* a display order of one period: its indices once each, the airlines in  *)
(* non-increasing order of total, the Others node last                    *)
OrderedSide(sorted, indices) ==
  /\ Range(sorted) = indices
  /\ Len(sorted) = Cardinality(indices)
  /\ sankey.all_labels[sorted[Len(sorted)] + 1].name = OthersName
  /\ \A k \in 1..(Len(sorted) - 1) :
       sankey.all_labels[sorted[k] + 1].name # OthersName
  /\ \A k \in 1..(Len(sorted) - 2) :
       NodeTotal(sorted[k]) >= NodeTotal(sorted[k + 1])

HasRows(year, month) == \E i \in DOMAIN df : InPeriod(df[i], year, month)

(* C6: the builder returns None exactly when August 2018 or January 2020  *)
(* has no record; otherwise it returns the node labels of both periods    *)
(* and the links.                                                         *)
C6_UnavailableIffPeriodEmpty ==
  page = "volume" /\ df # <<>> =>
    /\ sankey.status \in {"None", "ok"}
    /\ sankey.status = "None" <=> ~HasRows(2018, 8) \/ ~HasRows(2020, 1)
    /\ sankey.status = "None" <=> ~figure.drawn
    /\ sankey.status = "ok" =>
         /\ sankey.node_labels_2018 # <<>>
         /\ sankey.node_labels_2020 # <<>>
         /\ sankey.all_labels = sankey.node_labels_2018 \o sankey.node_labels_2020
         /\ sankey.links # <<>>

(* C6 witness: None returned although one of the two periods has records *)
C6_Witness ==
  /\ page = "volume"
  /\ sankey.status = "None"
  /\ HasRows(2018, 8)
  /\ ~HasRows(2020, 1)

(* the flights of a period that carry the airline name *)
CountOf(rows, name) ==
  Cardinality({i \in DOMAIN rows : rows[i].Airline_Name = name})

NamesOf(rows) == {rows[i].Airline_Name : i \in DOMAIN rows} \ {NaNName}

(* the summary of a period: the (at most) ten airlines with the most      *)
(* flights, most first, then one Others row counting all the others       *)
TopThenOthers(data, rows) ==
  LET n == Len(data)
      top == 1..(n - 1)
      topNames == {data[i].Airline_Name : i \in top}
      rest == NamesOf(rows) \ topNames
  IN /\ n >= 1
     /\ data[n].Airline_Name = OthersName
     /\ n - 1 = (IF Cardinality(NamesOf(rows)) < 10
                 THEN Cardinality(NamesOf(rows)) ELSE 10)
     /\ Cardinality(topNames) = n - 1
     /\ \A i \in top :
          /\ data[i].Airline_Name \in NamesOf(rows)
          /\ data[i].Flight_Count = CountOf(rows, data[i].Airline_Name)
          /\ i + 1 \in top => data[i].Flight_Count >= data[i + 1].Flight_Count
          /\ \A name \in rest : CountOf(rows, name) <= data[i].Flight_Count
     /\ data[n].Flight_Count = SumSet(rest, [name \in rest |-> CountOf(rows, name)])

SummaryTotal(data) ==
  SumSeq(Tuple([i \in DOMAIN data |-> data[i].Flight_Count]))

NamedRows(rows) == SelectSeq(rows, LAMBDA row : row.Airline_Name # NaNName)

(* C7 as claimed: each summary is the top ten then Others, and its counts *)
(* add up to the number of records of its period.                         *)
C7_SummaryCountsAllRecords ==
  sankey.status = "ok" =>
    /\ TopThenOthers(sankey.data_2018, PeriodRows(df, 2018, 8))
    /\ TopThenOthers(sankey.data_2020, PeriodRows(df, 2020, 1))
    /\ SummaryTotal(sankey.data_2018) = Len(PeriodRows(df, 2018, 8))
    /\ SummaryTotal(sankey.data_2020) = Len(PeriodRows(df, 2020, 1))

(* C7 amended: each summary is the top ten then Others, and its counts    *)
(* add up to the number of records of its period that carry an airline    *)
(* name.                                                                  *)
C7_SummaryCountsNamedRecords ==
  sankey.status = "ok" =>
    /\ TopThenOthers(sankey.data_2018, PeriodRows(df, 2018, 8))
    /\ TopThenOthers(sankey.data_2020, PeriodRows(df, 2020, 1))
    /\ SummaryTotal(sankey.data_2018) = Len(NamedRows(PeriodRows(df, 2018, 8)))
    /\ SummaryTotal(sankey.data_2020) = Len(NamedRows(PeriodRows(df, 2020, 1)))

(* C7 witness: more than ten airlines in August 2018, so that Others      *)
(* counts flights, beside a record without an airline name                *)
C7_Witness ==
  /\ sankey.status = "ok"
  /\ Count2018(Len(sankey.data_2018)) > 0
  /\ \E i \in DOMAIN df : InPeriod(df[i], 2018, 8) /\ df[i].Airline_Name = NaNName

(* ------------------- route recommendation properties ------------------ *)
Called == page \in {"call", "best_airline"}

(* the records of the route asked for *)
Matching ==
  SelectSeq(df, LAMBDA row : /\ row.ORIGIN_AIRPORT = origin
                             /\ row.DEST_AIRPORT = destination)

HasMean(f) == f.den > 0

(* row a may stand before row b by mean arrival delay: rows without a     *)
(* mean (no arrival delay recorded) stand after the rows with one         *)
MeanOrdered(a, b) ==
  /\ HasMean(b) => HasMean(a) /\ a.num * b.den <= b.num * a.den

SameMean(a, b) ==
  \/ ~HasMean(a) /\ ~HasMean(b)
  \/ HasMean(a) /\ HasMean(b) /\ a.num * b.den = b.num * a.den

(* group g ranks strictly better than group h *)
Better(g, h) ==
  \/ HasMean(g.AvgArrivalDelay) /\ ~HasMean(h.AvgArrivalDelay)
  \/ /\ HasMean(g.AvgArrivalDelay) /\ HasMean(h.AvgArrivalDelay)
     /\ g.AvgArrivalDelay.num * h.AvgArrivalDelay.den
          < h.AvgArrivalDelay.num * g.AvgArrivalDelay.den
  \/ /\ SameMean(g.AvgArrivalDelay, h.AvgArrivalDelay)
     /\ g.OnTimeRate.num * h.OnTimeRate.den > h.OnTimeRate.num * g.OnTimeRate.den

RouteGroups == Range(Grouped(Matching))

Returned(g) ==
  \E k \in DOMAIN result.recommendations :
    /\ result.recommendations[k].Airline = g.Airline_Name
    /\ result.recommendations[k].AvgArrivalDelay = g.AvgArrivalDelay
    /\ result.recommendations[k].FlightsPerWeek = g.FlightsPerWeek

(* C8: the engine returns at most 3 rows, in non-decreasing order of mean *)
(* arrival delay, rows of equal mean in non-increasing order of on-time   *)
(* rate; they are the 3 best airline groups of the route (all of them     *)
(* when there are fewer): no group left out ranks strictly better than a  *)
(* returned one.                                                          *)
C8_TopThreeRanked ==
  Called =>
    LET recs == result.recommendations
    IN /\ Len(recs) <= 3
       /\ Len(recs) = (IF Cardinality(RouteGroups) < 3
                       THEN Cardinality(RouteGroups) ELSE 3)
       /\ \A k \in 1..(Len(recs) - 1) :
            /\ MeanOrdered(recs[k].AvgArrivalDelay, recs[k + 1].AvgArrivalDelay)
            /\ SameMean(recs[k].AvgArrivalDelay, recs[k + 1].AvgArrivalDelay)
                 => recs[k].OnTimePct >= recs[k + 1].OnTimePct
       /\ \A k \in DOMAIN recs : \E g \in RouteGroups : Returned(g)
                                    /\ g.Airline_Name = recs[k].Airline
       /\ \A g \in RouteGroups : ~Returned(g) =>
            \A h \in RouteGroups : Returned(h) => ~Better(g, h)

(* C8 witness: a route with more than 3 airline groups, 3 rows returned,  *)
(* two adjacent rows of equal mean told apart by their on-time rate       *)
C8_Witness ==
  /\ Called
  /\ Cardinality(RouteGroups) > 3
  /\ Len(result.recommendations) = 3
  /\ \E k \in 1..2 :
       /\ SameMean(result.recommendations[k].AvgArrivalDelay,
                   result.recommendations[k + 1].AvgArrivalDelay)
       /\ result.recommendations[k].OnTimePct
            > result.recommendations[k + 1].OnTimePct

(* the matching records of one airline group *)
MatchingOf(id, name) ==
  {i \in DOMAIN Matching :
     Matching[i].AIRLINE_ID = id /\ Matching[i].Airline_Name = name}

DelaySum(rows) ==
  SumSet({i \in rows : Matching[i].ARR_DELAY # {}},
         [i \in rows |-> IF Matching[i].ARR_DELAY = {} THEN 0
                         ELSE CHOOSE v \in Matching[i].ARR_DELAY : TRUE])

(* C9: for a pair with no matching record the engine returns the empty    *)
(* table with sample size 0 and 0 weeks, for which the page shows the     *)
(* no-flights warning; and the records of other routes contribute         *)
(* nothing: the sample size, the weeks and every returned row's airline   *)
(* and mean are those of the matching records alone.                      *)
C9_NoDataForRoute ==
  Called =>
    /\ Matching = <<>> =>
         /\ result = [recommendations |-> <<>>, sample_size |-> 0,
                      weeks_observed |-> 0]
         /\ RouteMessage(result) = "no_flights_found"
    /\ page = "best_airline" => message = RouteMessage(result)
    /\ result.sample_size = Len(Matching)
    /\ Matching # <<>> =>
         result.weeks_observed
           = Cardinality({YearWeek(Matching[i].FL_DATE) : i \in DOMAIN Matching})
    /\ \A k \in DOMAIN result.recommendations :
         \E i \in DOMAIN Matching :
           LET rows == MatchingOf(Matching[i].AIRLINE_ID, Matching[i].Airline_Name)
               avg == result.recommendations[k].AvgArrivalDelay
           IN /\ Matching[i].Airline_Name = result.recommendations[k].Airline
              /\ avg.den = Cardinality({j \in rows : Matching[j].ARR_DELAY # {}})
              /\ avg.num = DelaySum(rows)

(* C9 witness: a call for a pair without records on a table that holds    *)
(* flights of the reverse direction                                       *)
C9_Witness ==
  /\ page = "call"
  /\ Matching = <<>>
  /\ result.sample_size = 0
  /\ \E i \in DOMAIN df : /\ df[i].ORIGIN_AIRPORT = destination
                          /\ df[i].DEST_AIRPORT = origin

(* C10: on the JFK -> LAX scenario the engine ranks A above B, reports    *)
(* for A an average arrival delay of -4.0, 100.0 % on time and 2.0        *)
(* flights a week, for B 10.0, 0.0 % and 1.0, with sample size 3 and 1    *)
(* week observed.                                                         *)
C10_JfkLaxScenario ==
  Called /\ df = JfkLaxScenario /\ origin = "JFK" /\ destination = "LAX" =>
    LET recs == result.recommendations
    IN /\ Len(recs) = 2
       /\ recs[1].Airline = "A"
       /\ HasMean(recs[1].AvgArrivalDelay)
       /\ recs[1].AvgArrivalDelay.num = -4 * recs[1].AvgArrivalDelay.den
       /\ recs[1].OnTimePct = 1000
       /\ recs[1].FlightsPerWeek = {20}
       /\ recs[2].Airline = "B"
       /\ HasMean(recs[2].AvgArrivalDelay)
       /\ recs[2].AvgArrivalDelay.num = 10 * recs[2].AvgArrivalDelay.den
       /\ recs[2].OnTimePct = 0
       /\ recs[2].FlightsPerWeek = {10}
       /\ result.sample_size = 3
       /\ result.weeks_observed = 1

(* C10 witness: the engine has run on the scenario *)
C10_Witness ==
  /\ page = "call"
  /\ df = JfkLaxScenario
  /\ origin = "JFK"
  /\ destination = "LAX"
  /\ Len(result.recommendations) = 2

(* the flights a week of an airline group, from its own matching records: *)
(* their number over the number of distinct weeks among them (at least    *)
(* 1), rounded to one decimal, in tenths                                  *)
OwnFlightsPerWeek(rows) ==
  {RoundHalfEven(10 * Cardinality(rows),
                 Max2(Cardinality({YearWeek(Matching[i].FL_DATE) : i \in rows}), 1))}

(* C11: every returned row's "Flights / Week" is the number of route      *)
(* records of its airline group divided by the number of distinct weeks   *)
(* among those same records (at least 1), rounded to one decimal, and is  *)
(* never missing, also for a group without an airline id or name and for  *)
(* an airline id carried under more than one name.                        *)
C11_FlightsPerWeekOfGroup ==
  Called =>
    \A g \in RouteGroups :
      Returned(g) =>
        g.FlightsPerWeek = OwnFlightsPerWeek(MatchingOf(g.AIRLINE_ID, g.Airline_Name))

(* ------------------------ waterfall properties ------------------------ *)
(* C12: the waterfall builder returns None when neither August 2018 nor   *)
(* January 2020 has a record, never returns a result whose grand total is *)
(* 0, and when a period has records returns the three categories on-time  *)
(* or early, delayed, total, in that order, the total counting the        *)
(* records of both periods.                                               *)
C12_InsufficientDataSignal ==
  page = "context" /\ df # <<>> =>
    /\ waterfall.status \in {"None", "ok"}
    /\ ~HasRows(2018, 8) /\ ~HasRows(2020, 1) => waterfall.status = "None"
    /\ waterfall.status = "ok" => Len(waterfall.y) = 3 /\ waterfall.y[3] # 0
    /\ HasRows(2018, 8) \/ HasRows(2020, 1) =>
         /\ waterfall.status = "ok"
         /\ waterfall.x
              = <<"On Time/Early Flights", "Delayed Flights", "Total Flights">>
         /\ waterfall.y[3]
              = Len(PeriodRows(df, 2018, 8)) + Len(PeriodRows(df, 2020, 1))

(* C12 witness: None returned for a table that has records, none of them  *)
(* in the two periods                                                     *)
C12_Witness ==
  /\ page = "context"
  /\ df # <<>>
  /\ waterfall.status = "None"

(* the records of the two canonical periods *)
CanonicalRows == PeriodRows(df, 2018, 8) \o PeriodRows(df, 2020, 1)

(* C13: in the waterfall totals every record of the two periods counts    *)
(* once, as delayed when its departure delay is above 0 and as on time or *)
(* early otherwise, a missing departure delay counting as 0; so on-time   *)
(* plus delayed is the total.                                             *)
C13_EveryRecordCountedOnce ==
  waterfall.status = "ok" =>
    /\ waterfall.y[2]
         = Cardinality({i \in DOMAIN CanonicalRows :
              \E v \in CanonicalRows[i].DEP_DELAY : v > 0})
    /\ waterfall.y[1]
         = Cardinality({i \in DOMAIN CanonicalRows :
              \A v \in CanonicalRows[i].DEP_DELAY : v <= 0})
    /\ waterfall.y[1] + waterfall.y[2] = waterfall.y[3]

(* -------------------- comparison-table properties --------------------- *)
PeriodOf(label) ==
  IF label = "August 2018" THEN PeriodRows(df, 2018, 8)
  ELSE PeriodRows(df, 2020, 1)

PeriodLabels == {"August 2018", "January 2020"}

(* the airlines of the two periods and their combined totals *)
ComparedAirlines == NamesOf(CanonicalRows)
CombinedTotal(name) == CountOf(CanonicalRows, name)
ReturnedAirlines == {airlines_data[k].Airline_Name : k \in DOMAIN airlines_data}

(* C14: the airline comparison has one row for every (airline, period)    *)
(* with flights among the 10 airlines of highest combined two-period      *)
(* total (all airlines when there are fewer), so at most 20 rows, each    *)
(* with the number of that airline's records in that period; it is empty  *)
(* when both periods are empty and has rows of one period only when the   *)
(* other is empty.                                                        *)
C14_AirlineComparison ==
  page = "volume" =>
    /\ Len(airlines_data) <= 20
    /\ ReturnedAirlines \subseteq ComparedAirlines
    /\ Cardinality(ReturnedAirlines)
         = (IF Cardinality(ComparedAirlines) < 10
            THEN Cardinality(ComparedAirlines) ELSE 10)
    /\ \A a \in ReturnedAirlines : \A b \in ComparedAirlines \ ReturnedAirlines :
         CombinedTotal(a) >= CombinedTotal(b)
    /\ \A k \in DOMAIN airlines_data :
         /\ airlines_data[k].Period \in PeriodLabels
         /\ airlines_data[k].Total_Flights > 0
         /\ airlines_data[k].Total_Flights
              = CountOf(PeriodOf(airlines_data[k].Period),
                        airlines_data[k].Airline_Name)
         /\ \A m \in DOMAIN airlines_data :
              /\ airlines_data[m].Airline_Name = airlines_data[k].Airline_Name
              /\ airlines_data[m].Period = airlines_data[k].Period
              => m = k
    /\ \A a \in ReturnedAirlines : \A label \in PeriodLabels :
         CountOf(PeriodOf(label), a) > 0 =>
           \E k \in DOMAIN airlines_data :
             /\ airlines_data[k].Airline_Name = a
             /\ airlines_data[k].Period = label
    /\ ~HasRows(2018, 8) /\ ~HasRows(2020, 1) => airlines_data = <<>>

(* C14 witness: more than ten airlines compared, one of them left out,    *)
(* and an airline returned with flights in one period only                *)
C14_Witness ==
  /\ page = "volume"
  /\ Cardinality(ComparedAirlines) > 10
  /\ Cardinality(ReturnedAirlines) = 10
  /\ \E a \in ReturnedAirlines :
       Cardinality({k \in DOMAIN airlines_data :
                      airlines_data[k].Airline_Name = a}) = 1

(* no two rows of the reference table have the same IATA code *)
UniqueIATA ==
  \A i \in DOMAIN airports_us : \A j \in DOMAIN airports_us :
    airports_us[i].IATA = airports_us[j].IATA => i = j

(* the record's origin is in the reference table, with this state *)
OriginIn(row, state) ==
  \E a \in Range(airports_us) : a.IATA = row.ORIGIN_AIRPORT /\ a.State = state

(* the records of a table whose origin airport is in this state *)
FromState(rows, state) == {i \in DOMAIN rows : OriginIn(rows[i], state)}

(* the records of a table whose origin has a state in the reference table *)
Contributing(rows) ==
  {i \in DOMAIN rows : \E a \in Range(airports_us) :
     a.IATA = rows[i].ORIGIN_AIRPORT /\ a.State # NaNName}

ComparedStates ==
  {a.State : a \in {a \in Range(airports_us) :
     a.State # NaNName /\ FromState(CanonicalRows, a.State) # {}}}

ReturnedStates == {states_data[k].State : k \in DOMAIN states_data}

StatesTotal ==
  SumSeq(Tuple([k \in DOMAIN states_data |-> states_data[k].Total_Flights]))

OriginCount(code) ==
  Cardinality({i \in DOMAIN df : df[i].ORIGIN_AIRPORT = code})

OriginsOf(table) == {table[i].ORIGIN_AIRPORT : i \in DOMAIN table}

RankedAirports == {top_airports[k].ORIGIN_AIRPORT : k \in DOMAIN top_airports}

FlightsTotal ==
  SumSeq(Tuple([k \in DOMAIN top_airports |-> top_airports[k].Flights]))

(* the page has ranked the airports of a table with records *)
AirportsRanked == page = "volume" /\ df # <<>> /\ airports_us # <<>>

(* C18 as claimed: the "Flights" column of the busiest-airports table     *)
(* adds up to the number of input records.                                *)
C18_FlightsSumToRecords ==
  AirportsRanked => FlightsTotal = Len(df)

(* C18 amended: the busiest-airports table has one row for each of the 10 *)
(* origin airports with the most records (for every airport when there    *)
(* are fewer), each with the number of records of its airport, most       *)
(* first; its "Flights" column adds up to the number of input records     *)
(* from those airports, which is every input record when there are at     *)
(* most 10 origin airports.                                               *)
C18_FlightsSumToRankedRecords ==
  AirportsRanked =>
    /\ Len(top_airports) = Cardinality(RankedAirports)
    /\ RankedAirports \subseteq OriginsOf(df)
    /\ Len(top_airports)
         = (IF Cardinality(OriginsOf(df)) < 10
            THEN Cardinality(OriginsOf(df)) ELSE 10)
    /\ \A k \in DOMAIN top_airports :
         /\ top_airports[k].Flights = OriginCount(top_airports[k].ORIGIN_AIRPORT)
         /\ k + 1 \in DOMAIN top_airports =>
              top_airports[k].Flights >= top_airports[k + 1].Flights
         /\ \A code \in OriginsOf(df) \ RankedAirports :
              OriginCount(code) <= top_airports[k].Flights
    /\ FlightsTotal
         = Cardinality({i \in DOMAIN df : df[i].ORIGIN_AIRPORT \in RankedAirports})
    /\ Cardinality(OriginsOf(df)) <= 10 => FlightsTotal = Len(df)

(* C18 witness: more than ten origin airports, so that the table leaves   *)
(* records out, its first row counting more flights than its last         *)
C18_Witness ==
  /\ AirportsRanked
  /\ Cardinality(OriginsOf(df)) > 10
  /\ FlightsTotal < Len(df)
  /\ top_airports[1].Flights > top_airports[Len(top_airports)].Flights

(* ------------------------ delay-map properties ------------------------ *)
(* a delay of a record of the page's table, a missing value taken as 0 *)
DelayOf(i, column) ==
  IF df[i][column] = {} THEN 0 ELSE CHOOSE v \in df[i][column] : TRUE

WeatherCaused == {i \in DOMAIN df : DelayOf(i, "WEATHER_DELAY") > 0}

OtherCaused ==
  {i \in DOMAIN df :
     DelayOf(i, "ARR_DELAY") > 0 /\ DelayOf(i, "WEATHER_DELAY") = 0}

(* C16: the weather-delay partition of create_delay_map holds the records *)
(* with a weather delay above 0, the other-delay partition those with an  *)
(* arrival delay above 0 and a weather delay of 0 (a missing value taken  *)
(* as 0); no record is in both, and a record with an arrival delay of at  *)
(* most 0 and no weather delay is in neither.                             *)
C16_PartitionsDisjoint ==
  page = "delay" =>
    /\ delay_map.weather.rows = WeatherCaused
    /\ delay_map.other.rows = OtherCaused
    /\ delay_map.weather.rows \cap delay_map.other.rows = {}
    /\ \A i \in DOMAIN df :
         DelayOf(i, "ARR_DELAY") <= 0 /\ DelayOf(i, "WEATHER_DELAY") = 0
           => i \notin delay_map.weather.rows \cup delay_map.other.rows

(* C16 witness: the map was built from a record delayed by weather that   *)
(* also arrived late, a late record whose weather delay is missing, and   *)
(* a record that arrived early with no weather delay                      *)
C16_Witness ==
  /\ page = "delay"
  /\ \E i \in delay_map.weather.rows : DelayOf(i, "ARR_DELAY") > 0
  /\ \E i \in delay_map.other.rows : df[i].WEATHER_DELAY = {}
  /\ \E i \in DOMAIN df :
       /\ DelayOf(i, "ARR_DELAY") < 0
       /\ i \notin delay_map.weather.rows \cup delay_map.other.rows

(* the origin airports of a partition that the reference table lists *)
Survivors(partition) ==
  {df[i].ORIGIN_AIRPORT : i \in partition}
    \cap {airports_us[k].IATA : k \in DOMAIN airports_us}

(* the delay minutes of the partition's records from one airport *)
MinutesOf(partition, column, code) ==
  LET mine == {i \in partition : df[i].ORIGIN_AIRPORT = code}
  IN SumSet(mine, [i \in mine |-> DelayOf(i, column)])

(* sizes is values scaled so that the largest value maps to               *)
(* marker_multiplier: every size is a number in (0, marker_multiplier],   *)
(* size = value / max(value) x marker_multiplier                          *)
ScaledToLargest(sizes, values) ==
  /\ Len(sizes) = Len(values)
  /\ \A k \in DOMAIN sizes :
       /\ sizes[k].den > 0
       /\ sizes[k].num > 0
       /\ sizes[k].num <= marker_multiplier * sizes[k].den
  /\ values # <<>> =>
       \E m \in DOMAIN values :
         /\ values[m].num > 0 /\ values[m].den > 0
         /\ \A k \in DOMAIN values :
              values[k].num * values[m].den <= values[m].num * values[k].den
         /\ sizes[m].num = marker_multiplier * sizes[m].den
         /\ \A k \in DOMAIN values :
              sizes[k].num * values[m].num * values[k].den
                = marker_multiplier * values[k].num * values[m].den * sizes[k].den

(* the arrays of one trace are those of its partition's airports *)
TraceSized(trace, partition, column) ==
  LET Statistic(n) == Tuple([k \in DOMAIN trace.custom |-> trace.custom[k][n]])
  IN /\ Len(trace.airports) = Cardinality(Survivors(partition))
     /\ {trace.airports[k] : k \in DOMAIN trace.airports} = Survivors(partition)
     /\ Len(trace.lon) = Len(trace.airports)
     /\ Len(trace.lat) = Len(trace.airports)
     /\ Len(trace.txt) = Len(trace.airports)
     /\ \A k \in DOMAIN trace.airports :
          /\ trace.txt[k].code = trace.airports[k]
          /\ trace.custom[k][1]
               = [num |-> MinutesOf(partition, column, trace.airports[k]),
                  den |-> 1]
     /\ ScaledToLargest(trace.size_tot, Statistic(1))
     /\ ScaledToLargest(trace.size_avg, Statistic(2))
     /\ ScaledToLargest(trace.size_med, Statistic(3))
     /\ Survivors(partition) = {} =>
          /\ trace.lon = <<>> /\ trace.lat = <<>> /\ trace.txt = <<>>
          /\ trace.size_tot = <<>> /\ trace.size_avg = <<>>
          /\ trace.size_med = <<>>

(* C17: with a reference table of unique codes, each trace of the delay   *)
(* map has one entry per airport of its partition that the inner join     *)
(* with the reference table keeps; each size array (total, mean, median)  *)
(* is value / max(value) x marker_multiplier, so the largest value gets   *)
(* exactly marker_multiplier, every entry is in (0, marker_multiplier]    *)
(* and the divisor is never 0; an empty joined partition gives empty      *)
(* arrays.                                                                *)
C17_MarkerSizes ==
  page = "delay" /\ UniqueIATA =>
    /\ TraceSized(delay_map.weather, WeatherCaused, "WEATHER_DELAY")
    /\ TraceSized(delay_map.other, OtherCaused, "ARR_DELAY")

(* C17 witness: two airports in the weather trace, one of them with a     *)
(* marker smaller than marker_multiplier, and an empty other-delay trace  *)
C17_Witness ==
  /\ page = "delay"
  /\ UniqueIATA
  /\ Len(delay_map.weather.size_tot) = 2
  /\ \E k \in DOMAIN delay_map.weather.size_tot :
       delay_map.weather.size_tot[k].num
         < marker_multiplier * delay_map.weather.size_tot[k].den
  /\ delay_map.other.size_tot = <<>>

(* ------------------------ determinism properties ---------------------- *)
(* C19: two invocations of _build_airline_sankey_data on the same table   *)
(* give the same result, the links in the same order, whatever order the  *)
(* sets of airline names are iterated in.                                 *)
C19_SameTableSameSankey ==
  page = "calls" => sankey_again = sankey

(* ------------------------- frame properties --------------------------- *)
(* C20: no call changes the caller's tables: after every step -- a page's *)
(* aggregations, a direct call of a builder, a rerun -- the               *)
(* flight-records table and the airport-reference table are the tables    *)
(* they were before it, with the same rows and columns and the same       *)
(* missing delays.                                                        *)
C20_InputsUnchanged ==
  [][df' = df /\ airports_us' = airports_us]_vars

(* C20 witness: the delay page has drawn its map and its daily comparison *)
(* from a table with a missing weather delay, which its copy counted as 0 *)
(* in the other-delay partition, and the table still has the missing      *)
(* value and no Period or day_of_month column                             *)
C20_Witness ==
  /\ page = "delay"
  /\ period_comparison.status = "ok"
  /\ \E i \in delay_map.other.rows : df[i].WEATHER_DELAY = {}
  /\ \A i \in DOMAIN df :
       DOMAIN df[i] \cap {"Period", "day_of_month", "YearWeek", "Day"} = {}

(* ------------------- route ranking is never empty --------------------- *)
(* the airline groups of the matching records: their (id, name) pairs *)
MatchingGroups ==
  {<<Matching[i].AIRLINE_ID, Matching[i].Airline_Name>> : i \in DOMAIN Matching}

(* C21: when the route asked for has a matching record, the recommender   *)
(* returns between 1 and 3 rows -- one for each airline group of the      *)
(* matching records, groups with a missing id or name included, up to 3   *)
(* -- and the page never shows the "every airline has very few flights"   *)
(* message.                                                               *)
C21_RankingNeverEmpty ==
  /\ message # "too_few_flights"
  /\ Called /\ Matching # <<>> =>
       /\ result.sample_size = Len(Matching)
       /\ Len(result.recommendations) >= 1
       /\ Len(result.recommendations) <= 3
       /\ Len(result.recommendations)
            = (IF Cardinality(MatchingGroups) < 3
               THEN Cardinality(MatchingGroups) ELSE 3)
       /\ page = "best_airline" => message = "ranking"

(* C21 witness: the page ranks a route all of whose records have no       *)
(* airline id and no airline name, in one row                             *)
C21_Witness ==
  /\ page = "best_airline"
  /\ Matching # <<>>
  /\ \A i \in DOMAIN Matching :
       Matching[i].AIRLINE_ID = {} /\ Matching[i].Airline_Name = NaNName
  /\ Len(result.recommendations) = 1
  /\ message = "ranking"

(* ------------------- inflow on the period-2 side ---------------------- *)
LinksInto(target) == SelectSeq(sankey.links, LAMBDA l : l.target = target)
LinksFrom(source) == SelectSeq(sankey.links, LAMBDA l : l.source = source)

(* the rows of a summary that are airlines: all but the last, "Others" *)
AirlineRows(data) == 1..(Len(data) - 1)

(* the 2018 rows of the airline a 2020 row names *)
SameAirline2018(j) ==
  {i \in AirlineRows(sankey.data_2018) :
     sankey.data_2018[i].Airline_Name = sankey.data_2020[j].Airline_Name}

(* C22: in a built Sankey every 2020 airline node (not "Others") is the   *)
(* target of exactly one link, which carries the airline's January 2020   *)
(* Flight_Count and comes from the airline's own 2018 node when the       *)
(* airline is in the 2018 top too, otherwise from "2018: Others"; every   *)
(* airline in the 2018 top but not in the 2020 top has exactly one        *)
(* outgoing link, into "2020: Others", carrying its August 2018 count.    *)
C22_PeriodTwoInflow ==
  sankey.status = "ok" =>
    /\ \A j \in AirlineRows(sankey.data_2020) :
         LET into == LinksInto(Id2020(j))
         IN /\ Len(into) = 1
            /\ into[1].value = Count2020(j)
            /\ Count2020(j) = CountOf(PeriodRows(df, 2020, 1),
                                      sankey.data_2020[j].Airline_Name)
            /\ TotalIn(sankey.links, Id2020(j)) = Count2020(j)
            /\ Cardinality(SameAirline2018(j)) <= 1
            /\ into[1].source
                 = (IF SameAirline2018(j) = {} THEN OthersId2018
                    ELSE Id2018(CHOOSE i \in SameAirline2018(j) : TRUE))
    /\ \A i \in AirlineRows(sankey.data_2018) :
         (\A j \in AirlineRows(sankey.data_2020) : i \notin SameAirline2018(j))
           => /\ LinksFrom(Id2018(i))
                   = <<Link(Id2018(i), OthersId2020, Count2018(i))>>
              /\ Count2018(i) = CountOf(PeriodRows(df, 2018, 8),
                                        sankey.data_2018[i].Airline_Name)

(* C22 witness: a built Sankey with an airline new to the 2020 top, an    *)
(* airline that left it, and an airline in both with more flights in      *)
(* 2020 than in 2018                                                      *)
C22_Witness ==
  /\ sankey.status = "ok"
  /\ \E j \in AirlineRows(sankey.data_2020) :
       SameAirline2018(j) = {} /\ Len(LinksInto(Id2020(j))) = 1
  /\ \E i \in AirlineRows(sankey.data_2018) :
       \A j \in AirlineRows(sankey.data_2020) : i \notin SameAirline2018(j)
  /\ \E j \in AirlineRows(sankey.data_2020) :
       \E i \in SameAirline2018(j) : Count2018(i) < Count2020(j)

====
